---- MODULE Spec2Model ----
(***************************************************************************)
(* Patient-vitals streaming pipeline: the Dataflow validator               *)
(* (dataflow/streamingpipeline.py), its Pub/Sub source and BigQuery sink,  *)
(* and the synthetic load generator (simulator1/patient_vitals.py).        *)
(*                                                                         *)
(* Numbers that may carry a fraction (JSON numbers, temperatures) are      *)
(* held in tenths: 98.6 is 986, the JSON number 220.5 is 2205.  Coerced    *)
(* integer fields of a row are held in units.                              *)
(***************************************************************************)
EXTENDS Integers, Sequences, FiniteSets, TLC

\* ------------------------------------------------------------------ bounds
MaxMutations == 2     \* fields of the base payload an input may differ in
MaxClock == 1         \* ticks of the processing clock
MaxDeliveries == 2    \* deliveries by the subscription in one run
NumWorkers == 2       \* concurrent invocations of the DoFn
MaxPublished == 1     \* iterations of the simulator's loop
MaxCalls == 1         \* calls of process followed statement by statement

Workers == 1..NumWorkers
NoTs == -1
NaN == -999999        \* float("nan"), json.loads("NaN")

\* ------------------------------------------------------------ JSON values
Num(v) == [t |-> "num", v |-> v]            \* a JSON number, in tenths
Null == [t |-> "null", v |-> 0]
Bool(b) == [t |-> "bool", v |-> b]          \* true is 1, false is 0
StrInt(v) == [t |-> "str_int", v |-> v]     \* "80": an integer literal
StrDec(v) == [t |-> "str_dec", v |-> v]     \* "80.5": a decimal literal
StrText(i) == [t |-> "str_text", v |-> i]   \* any other string
NumNaN == [t |-> "nan", v |-> 0]            \* the JSON extension NaN
Arr == [t |-> "array", v |-> 0]             \* a nested array

required == {"event_ts", "patient_id", "heart_rate", "temperature",
             "bp_diastolic", "bp_systolic", "spo2"}
IntFields == {"patient_id", "heart_rate", "bp_diastolic", "bp_systolic", "spo2"}

Empty == [k \in {} |-> Null]
Put(f, k, x) == [j \in (DOMAIN f) \cup {k} |-> IF j = k THEN x ELSE f[j]]
Del(f, k) == [j \in (DOMAIN f) \ {k} |-> f[j]]

\* A message payload: what the bytes decode and parse to.
\*   top    - "badutf8", "badjson", or the kind of the top-level JSON value
\*   fields - the members of a top-level object
\*   has    - for a top-level array or string, the required names that
\*            `k in obj` finds in it (elements / substrings)
Obj(f) == [top |-> "object", fields |-> f, has |-> {}]
NonObj(top, has) == [top |-> top, fields |-> Empty, has |-> has]
NoMsg == NonObj("none", {})

\* ------------------------------------------------------- Python coercions
\* int() of a float truncates toward zero
Trunc(v) == IF v >= 0 THEN v \div 10 ELSE -((-v) \div 10)

\* int(x): <<n>> in units, or <<>> when int() raises
IntOf(x) ==
  CASE x.t = "num" -> <<Trunc(x.v)>>
    [] x.t = "bool" -> <<x.v>>
    [] x.t = "str_int" -> <<Trunc(x.v)>>
    [] OTHER -> <<>>

\* float(x): <<v>> in tenths (or NaN), or <<>> when float() raises
FloatOf(x) ==
  CASE x.t = "num" -> <<x.v>>
    [] x.t = "bool" -> <<10 * x.v>>
    [] x.t = "str_int" -> <<x.v>>
    [] x.t = "str_dec" -> <<x.v>>
    [] x.t = "nan" -> <<NaN>>
    [] OTHER -> <<>>

\* a <= b on floats: every comparison with NaN is false
FloatLE(a, b) == a # NaN /\ b # NaN /\ a <= b

\* --------------------------------------------------- ParseAndValidate steps
\* message_bytes.decode("utf-8")
DecodeOK(m) == m.top # "badutf8"

ParseOK_lenient(m) == TRUE

\* json.loads(raw)
ParseOK(m) == m.top # "badjson"

\* all(k in obj for k in required): "pass", "return" (a key is absent) or
\* "raise" (`in` on a number, boolean or None)
Presence(obj) ==
  CASE obj.top = "object" ->
         IF required \subseteq DOMAIN obj.fields THEN "pass" ELSE "return"
    [] obj.top \in {"array", "string"} ->
         IF required \subseteq obj.has THEN "pass" ELSE "return"
    [] OTHER -> "raise"

BuildRow_copyAll(obj, ts) ==
  LET f == obj.fields
      base == [k \in DOMAIN f |->
                 IF k \in IntFields THEN IntOf(f[k])[1]
                 ELSE IF k = "temperature" THEN FloatOf(f[k])[1] ELSE f[k]]
  IN Put(base, "ingest_ts", ts)

BuildRow_stampEvent(obj, ts) ==
  LET f == obj.fields IN
  [event_ts |-> StrText(100 + ts),
   patient_id |-> IntOf(f["patient_id"])[1],
   heart_rate |-> IntOf(f["heart_rate"])[1],
   temperature |-> FloatOf(f["temperature"])[1],
   bp_diastolic |-> IntOf(f["bp_diastolic"])[1],
   bp_systolic |-> IntOf(f["bp_systolic"])[1],
   spo2 |-> IntOf(f["spo2"])[1],
   ingest_ts |-> ts]

\* the row literal, once every coercion has succeeded
BuildRow(obj, ts) ==
  LET f == obj.fields IN
  [event_ts |-> f["event_ts"],
   patient_id |-> IntOf(f["patient_id"])[1],
   heart_rate |-> IntOf(f["heart_rate"])[1],
   temperature |-> FloatOf(f["temperature"])[1],
   bp_diastolic |-> IntOf(f["bp_diastolic"])[1],
   bp_systolic |-> IntOf(f["bp_systolic"])[1],
   spo2 |-> IntOf(f["spo2"])[1],
   ingest_ts |-> ts]

\* row = {...}: <<row>>, or <<>> when a subscript or a coercion raises
Coerce(obj, ts) ==
  IF obj.top # "object" THEN <<>>
  ELSE IF \E k \in IntFields : IntOf(obj.fields[k]) = <<>> THEN <<>>
  ELSE IF FloatOf(obj.fields["temperature"]) = <<>> THEN <<>>
  ELSE <<BuildRow(obj, ts)>>

RangeOK_strict(row) ==
  /\ 0 < row.patient_id /\ row.patient_id < 10000
  /\ 30 < row.heart_rate /\ row.heart_rate < 220
  /\ 850 < row.temperature /\ row.temperature < 1100
  /\ 30 < row.bp_diastolic /\ row.bp_diastolic < 150
  /\ 50 < row.bp_systolic /\ row.bp_systolic < 250
  /\ 50 < row.spo2 /\ row.spo2 < 100

RangeOK_noSpo2(row) ==
  /\ 0 < row.patient_id /\ row.patient_id <= 10000
  /\ 30 <= row.heart_rate /\ row.heart_rate <= 220
  /\ FloatLE(850, row.temperature) /\ FloatLE(row.temperature, 1100)
  /\ 30 <= row.bp_diastolic /\ row.bp_diastolic <= 150
  /\ 50 <= row.bp_systolic /\ row.bp_systolic <= 250

\* the six sanity checks
RangeOK(row) ==
  /\ 0 < row.patient_id /\ row.patient_id <= 10000
  /\ 30 <= row.heart_rate /\ row.heart_rate <= 220
  /\ FloatLE(850, row.temperature) /\ FloatLE(row.temperature, 1100)
  /\ 30 <= row.bp_diastolic /\ row.bp_diastolic <= 150
  /\ 50 <= row.bp_systolic /\ row.bp_systolic <= 250
  /\ 50 <= row.spo2 /\ row.spo2 <= 100

Caught_propagate(res) == res

\* except Exception: return
Caught(res) == IF res = "raise" THEN "return" ELSE res

\* The whole of process(message_bytes) with the clock reading ts:
\* status "yield" with out = <<row>>, or "return" with out = <<>>.
process(m, ts) ==
  LET c == Coerce(m, ts)
      body ==
        IF ~DecodeOK(m) THEN "raise"
        ELSE IF ~ParseOK(m) THEN "raise"
        ELSE IF Presence(m) # "pass" THEN Presence(m)
        ELSE IF c = <<>> THEN "raise"
        ELSE IF ~RangeOK(c[1]) THEN "return"
        ELSE "yield"
  IN [status |-> Caught(body), out |-> IF body = "yield" THEN c ELSE <<>>]


\* ------------------------------------------------------------------ inputs
\* The end-to-end payload of the specification; every other object payload
\* differs from it in at most MaxMutations members.
BasePayload ==
  [k \in required |->
     CASE k = "event_ts" -> StrText(1)
       [] k = "patient_id" -> Num(50)
       [] k = "heart_rate" -> Num(800)
       [] k = "temperature" -> Num(986)
       [] k = "bp_diastolic" -> Num(700)
       [] k = "bp_systolic" -> Num(1200)
       [] k = "spo2" -> Num(970)]

IntDomain(lo, hi) ==
  {Num(10 * (lo - 1)), Num(10 * lo), Num(10 * lo + 5), Num(10 * hi),
   Num(10 * hi + 5), Num(10 * (hi + 1)), Null, Bool(1), StrText(2)}

Domain(k) ==
  CASE k = "event_ts" -> {Null, Num(10)}
    [] k = "patient_id" -> IntDomain(1, 10000)
    [] k = "heart_rate" -> IntDomain(30, 220) \cup {Num(-10)}
    [] k = "temperature" ->
         {Num(840), Num(849), Num(850), Num(1100), Num(1101), Num(1110),
          Null, Bool(1), StrText(2), StrDec(986), NumNaN}
    [] k = "bp_diastolic" -> IntDomain(30, 150)
    [] k = "bp_systolic" -> IntDomain(50, 250) \cup {StrInt(1200), StrDec(1205), Arr}
    [] k = "spo2" -> IntDomain(50, 100) \cup {Num(1500)}
    [] k = "_is_error" -> {Bool(0)}

KeyOrder == <<"event_ts", "patient_id", "heart_rate", "temperature",
              "bp_diastolic", "bp_systolic", "spo2", "_is_error">>

\* the payloads over the keys KeyOrder[i..] that differ from the base
\* payload in at most n members (a member changed, removed or added)
RECURSIVE Mutated(_, _)
Mutated(i, n) ==
  IF i > Len(KeyOrder) THEN {Empty}
  ELSE LET k == KeyOrder[i]
           same == IF k \in required
                     THEN {Put(g, k, BasePayload[k]) : g \in Mutated(i + 1, n)}
                     ELSE Mutated(i + 1, n)
           less == Mutated(i + 1, n - 1)
           changed == UNION {{Put(g, k, x) : x \in Domain(k)} : g \in less}
           removed == IF k \in required THEN less ELSE {}
       IN IF n = 0 THEN same ELSE same \cup changed \cup removed

Inputs ==
  {Obj(f) : f \in Mutated(1, MaxMutations)}
    \cup {NonObj("badutf8", {}), NonObj("badjson", {}),
          NonObj("array", {}), NonObj("array", required),
          NonObj("string", {}), NonObj("string", required),
          NonObj("number", {}), NonObj("bool", {}), NonObj("null", {})}

\* The messages the subscription of the pipeline run holds.
Pool ==
  {Obj(BasePayload),
   Obj(Put(BasePayload, "heart_rate", Num(2200))),
   Obj(Put(BasePayload, "spo2", Num(1500))),
   Obj(Put(BasePayload, "bp_systolic", StrText(2))),
   Obj(Del(BasePayload, "heart_rate")),
   NonObj("array", required),
   NonObj("badjson", {}),
   NonObj("badutf8", {})}

\* ------------------------------------------------------------------- state
VARIABLES
  wk,        \* per worker: the invocation of ParseAndValidate.process it runs
  clock,     \* the processing clock (Timestamp.now())
  source,    \* the messages the subscription can deliver
  budget,    \* deliveries the subscription still makes
  pending,   \* rows yielded by the DoFn, not yet inserted
  table,     \* the BigQuery table
  log,       \* the completed invocations, in order of completion
  gen        \* the simulator: its configuration and the locals of its loop

vars == <<wk, clock, source, budget, pending, table, log, gen>>

IdleWorker ==
  [pc |-> "idle", msg |-> NoMsg, began |-> NoTs, ingest |-> NoTs,
   row |-> <<>>, steps |-> <<>>, rangeAt |-> NoTs]

Remove(s, i) == SubSeq(s, 1, i - 1) \o SubSeq(s, i + 1, Len(s))

\* ------------------------------------------------------------ the pipeline
\* ReadFromPubSub hands a message to a DoFn instance: the call begins.
Deliver(w, m) ==
  /\ wk[w].pc = "idle"
  /\ budget > 0
  /\ m \in source
  /\ wk' = [wk EXCEPT ![w] =
              [IdleWorker EXCEPT !.pc = "start", !.msg = m, !.began = clock]]
  /\ budget' = budget - 1
  /\ UNCHANGED <<clock, source, pending, table, log, gen>>

\* The invocation of worker w, in its last state next, ends with status st:
\* the worker is free again and the call is entered in the log.
Finish(w, st, next) ==
  /\ wk' = [wk EXCEPT ![w] = IdleWorker]
  /\ log' = Append(log, [msg |-> next.msg, began |-> next.began, status |-> st,
                         out |-> IF st = "yield" THEN next.row ELSE <<>>,
                         steps |-> next.steps, ingest |-> next.ingest,
                         rangeAt |-> next.rangeAt])
  /\ pending' = IF st = "yield" THEN pending \o next.row ELSE pending
  /\ UNCHANGED <<clock, source, budget, table, gen>>

Step(w, next) ==
  /\ wk' = [wk EXCEPT ![w] = next]
  /\ UNCHANGED <<clock, source, budget, pending, table, log, gen>>

Did(w, name) == [wk[w] EXCEPT !.steps = Append(@, name)]

\* ingest_ts = Timestamp.now().to_rfc3339()
ReadClock(w) ==
  /\ wk[w].pc = "start"
  /\ Step(w, [Did(w, "clock") EXCEPT !.ingest = clock, !.pc = "decode"])

\* raw = message_bytes.decode("utf-8")
Decode(w) ==
  /\ wk[w].pc = "decode"
  /\ IF DecodeOK(wk[w].msg)
       THEN Step(w, [Did(w, "decode") EXCEPT !.pc = "parse"])
       ELSE Finish(w, Caught("raise"), Did(w, "decode"))

\* obj = json.loads(raw)
Parse(w) ==
  /\ wk[w].pc = "parse"
  /\ IF ParseOK(wk[w].msg)
       THEN Step(w, [Did(w, "parse") EXCEPT !.pc = "presence"])
       ELSE Finish(w, Caught("raise"), Did(w, "parse"))

\* if not all(k in obj for k in required): return
CheckRequired(w) ==
  /\ wk[w].pc = "presence"
  /\ IF Presence(wk[w].msg) = "pass"
       THEN Step(w, [Did(w, "presence") EXCEPT !.pc = "coerce"])
       ELSE Finish(w, Caught(Presence(wk[w].msg)), Did(w, "presence"))

\* row = {...}
Cast(w) ==
  /\ wk[w].pc = "coerce"
  /\ LET c == Coerce(wk[w].msg, wk[w].ingest) IN
       IF c # <<>>
         THEN Step(w, [Did(w, "coerce") EXCEPT !.pc = "range", !.row = c])
         ELSE Finish(w, Caught("raise"), Did(w, "coerce"))

\* the six `if not (...): return` lines
SanityCheck(w) ==
  /\ wk[w].pc = "range"
  /\ LET next == [Did(w, "range") EXCEPT !.rangeAt = clock] IN
       IF RangeOK(wk[w].row[1])
         THEN Step(w, [next EXCEPT !.pc = "yield"])
         ELSE Finish(w, "return", next)

\* yield row
Yield(w) ==
  /\ wk[w].pc = "yield"
  /\ Finish(w, "yield", Did(w, "yield"))

\* One whole call of process, from its first statement to its end.
Invoke(w) ==
  /\ wk[w].pc = "start"
  /\ LET r == process(wk[w].msg, clock) IN
       Finish(w, r.status, [wk[w] EXCEPT !.ingest = clock, !.row = r.out])

WriteDedup(tbl, r) ==
  IF \E i \in DOMAIN tbl : tbl[i] = r THEN tbl ELSE Append(tbl, r)

\* write_disposition = WRITE_APPEND
WriteAppend(tbl, r) == Append(tbl, r)

\* WriteToBigQuery inserts one yielded row (STREAMING_INSERTS), in any order
WriteToBigQuery ==
  \E i \in DOMAIN pending :
    /\ table' = WriteAppend(table, pending[i])
    /\ pending' = Remove(pending, i)
    /\ UNCHANGED <<wk, clock, source, budget, log, gen>>

Tick ==
  /\ clock < MaxClock
  /\ clock' = clock + 1
  /\ UNCHANGED <<wk, source, budget, pending, table, log, gen>>

NoGen ==
  [pc |-> "off", patient_count |-> 0, stream_interval |-> 0, error_rate |-> 0,
   error_mode |-> "none", missing_field_style |-> "delete",
   mode |-> "none", field |-> "none", published |-> 0]

InitCommon ==
  /\ wk = [w \in Workers |-> IdleWorker]
  /\ clock = 0
  /\ pending = <<>>
  /\ table = <<>>
  /\ log = <<>>

\* The streaming job: any delivery order, redeliveries, concurrent workers;
\* each call of process is one step.
Init ==
  /\ InitCommon
  /\ source = Pool
  /\ budget = MaxDeliveries
  /\ gen = NoGen

Next ==
  \/ \E w \in Workers : \E m \in source : Deliver(w, m)
  \/ \E w \in Workers : Invoke(w)
  \/ WriteToBigQuery
  \/ Tick

Spec == Init /\ [][Next]_vars

\* The validator alone: one call of process on any input.
InitValidator ==
  /\ InitCommon
  /\ \E m \in Inputs : source = {m}
  /\ budget = 1
  /\ gen = NoGen

SpecValidator == InitValidator /\ [][Next]_vars

\* The calls of process followed statement by statement.
InitSteps ==
  /\ InitCommon
  /\ source = Pool
  /\ budget = MaxCalls
  /\ gen = NoGen

NextSteps ==
  \/ \E w \in Workers : \E m \in source : Deliver(w, m)
  \/ \E w \in Workers : ReadClock(w)
  \/ \E w \in Workers : Decode(w)
  \/ \E w \in Workers : Parse(w)
  \/ \E w \in Workers : CheckRequired(w)
  \/ \E w \in Workers : Cast(w)
  \/ \E w \in Workers : SanityCheck(w)
  \/ \E w \in Workers : Yield(w)
  \/ WriteToBigQuery
  \/ Tick

SpecSteps == InitSteps /\ [][NextSteps]_vars

\* ----------------------------------------------------------- the simulator
\* Python values of the simulator's record
PyInt(n) == [t |-> "int", v |-> n]
PyFloat(v) == [t |-> "float", v |-> v]      \* in tenths
PyStr(i) == [t |-> "str", v |-> i]
PyBool(b) == [t |-> "bool", v |-> b]
PyNone == [t |-> "none", v |-> 0]

\* json.dumps of one value
Dumps(x) ==
  CASE x.t = "int" -> Num(10 * x.v)
    [] x.t = "float" -> Num(x.v)
    [] x.t = "str" -> StrText(x.v)
    [] x.t = "bool" -> Bool(x.v)
    [] x.t = "none" -> Null

\* data = json.dumps(payload).encode("utf-8")
publish_message(payload) == Obj([k \in DOMAIN payload |-> Dumps(payload[k])])

\* gen_vitals(patient_id); pick chooses the ends of the randint/uniform ranges
gen_vitals(patient_id, pick) ==
  [k \in required |->
     CASE k = "event_ts" -> PyStr(1)
       [] k = "patient_id" -> PyInt(patient_id)
       [] k = "heart_rate" -> PyInt(IF pick = "lo" THEN 55 ELSE 130)
       [] k = "temperature" -> PyFloat(IF pick = "lo" THEN 965 ELSE 1025)
       [] k = "bp_systolic" -> PyInt(IF pick = "lo" THEN 90 ELSE 160)
       [] k = "bp_diastolic" -> PyInt(IF pick = "lo" THEN 55 ELSE 110)
       [] k = "spo2" -> PyInt(IF pick = "lo" THEN 88 ELSE 100)]

modes == {"missing_field", "null_field", "negative_value", "out_of_range", "bad_type"}

\* inject_error(record, error_mode, missing_field_style) once `mode` and
\* `field` are drawn
inject_error(record, mode, field, missing_field_style) ==
  CASE mode = "missing_field" ->
         IF missing_field_style = "delete" THEN Del(record, field)
         ELSE Put(record, field, PyNone)
    [] mode = "null_field" -> Put(record, field, PyNone)
    [] mode = "negative_value" -> Put(record, "heart_rate", PyInt(-1))
    [] mode = "out_of_range" -> Put(record, "spo2", PyInt(150))
    [] mode = "bad_type" -> Put(record, "bp_systolic", PyStr(2))
    [] OTHER -> record

\* the environments main is started in
PatientCounts == {0, 30, 10000, 10001}
Intervals == {0, 1}
ErrorRates == {0, 5, 10, 11}                \* in tenths
ErrorModes == modes \cup {"mixed", "none", "bogus"}
Styles == {"delete", "null", "bogus"}
Randoms == {0, 9}                           \* random.random(), in tenths

\* the five startup checks of main
ConfigOK(g) ==
  /\ g.patient_count > 0
  /\ g.stream_interval > 0
  /\ 0 <= g.error_rate /\ g.error_rate <= 10
  /\ g.error_mode \in modes \cup {"mixed", "none"}
  /\ g.missing_field_style \in {"delete", "null"}

\* main, up to the loop: SystemExit on a bad configuration
MainStartup ==
  /\ gen.pc = "startup"
  /\ gen' = [gen EXCEPT !.pc = IF ConfigOK(gen) THEN "loop" ELSE "exit"]
  /\ UNCHANGED <<wk, clock, source, budget, pending, table, log>>

\* one iteration of `while True`, once the pipeline has drained the last one
MainLoop ==
  /\ gen.pc = "loop"
  /\ gen.published < MaxPublished
  /\ Len(log) = gen.published
  /\ \E patient_id \in {1, gen.patient_count}, pick \in {"lo", "hi"},
        r \in Randoms, m \in modes, field \in required :
       LET vitals == gen_vitals(patient_id, pick)
           inject == r < gen.error_rate
           mode == IF ~inject \/ gen.error_mode = "none" THEN "none"
                   ELSE IF gen.error_mode = "mixed" THEN m ELSE gen.error_mode
           fld == IF mode \in {"missing_field", "null_field"} THEN field ELSE "none"
           sent == Put(inject_error(vitals, mode, fld, gen.missing_field_style),
                       "_is_error", PyBool(IF inject THEN 1 ELSE 0))
       IN /\ source' = {publish_message(sent)}
          /\ budget' = 1
          /\ gen' = [gen EXCEPT !.mode = mode, !.field = fld,
                                !.published = @ + 1]
  /\ UNCHANGED <<wk, clock, pending, table, log>>

InitGen ==
  /\ InitCommon
  /\ source = {}
  /\ budget = 0
  /\ \E pcnt \in PatientCounts, si \in Intervals, er \in ErrorRates,
        em \in ErrorModes, st \in Styles :
       gen = [NoGen EXCEPT !.pc = "startup", !.patient_count = pcnt,
                           !.stream_interval = si, !.error_rate = er,
                           !.error_mode = em, !.missing_field_style = st]

NextGen ==
  \/ MainStartup
  \/ MainLoop
  \/ \E w \in Workers : \E m \in source : Deliver(w, m)
  \/ \E w \in Workers : Invoke(w)
  \/ WriteToBigQuery
  \/ Tick

SpecGen == InitGen /\ [][NextGen]_vars


\* ============================================================== properties
Columns == {"event_ts", "patient_id", "heart_rate", "temperature",
            "bp_diastolic", "bp_systolic", "spo2", "ingest_ts"}

\* the closed interval of each bounded field, in tenths
Lo(k) ==
  CASE k = "patient_id" -> 10 [] k = "heart_rate" -> 300
    [] k = "temperature" -> 850 [] k = "bp_diastolic" -> 300
    [] k = "bp_systolic" -> 500 [] k = "spo2" -> 500
Hi(k) ==
  CASE k = "patient_id" -> 100000 [] k = "heart_rate" -> 2200
    [] k = "temperature" -> 1100 [] k = "bp_diastolic" -> 1500
    [] k = "bp_systolic" -> 2500 [] k = "spo2" -> 1000
Bounded == IntFields \cup {"temperature"}

CompleteAndInRange(r) ==
  /\ DOMAIN r = Columns
  /\ 1 <= r.patient_id /\ r.patient_id <= 10000
  /\ 30 <= r.heart_rate /\ r.heart_rate <= 220
  /\ 850 <= r.temperature /\ r.temperature <= 1100
  /\ 30 <= r.bp_diastolic /\ r.bp_diastolic <= 150
  /\ 50 <= r.bp_systolic /\ r.bp_systolic <= 250
  /\ 50 <= r.spo2 /\ r.spo2 <= 100

\* a JSON number within the closed interval of field k
NumberInRange(f, k) ==
  k \in DOMAIN f /\ f[k].t = "num" /\ Lo(k) <= f[k].v /\ f[k].v <= Hi(k)

ValidInput(m) ==
  /\ m.top = "object"
  /\ required \subseteq DOMAIN m.fields
  /\ \A k \in Bounded : NumberInRange(m.fields, k)

\* C1: every record process has emitted, every row waiting for the sink and
\* every row of the table carries the eight columns, each bounded one within
\* its closed interval.
C1_EmittedRecordsInRange ==
  /\ \A i \in DOMAIN log : \A j \in DOMAIN log[i].out :
       CompleteAndInRange(log[i].out[j])
  /\ \A i \in DOMAIN pending : CompleteAndInRange(pending[i])
  /\ \A i \in DOMAIN table : CompleteAndInRange(table[i])

C1_Witness ==
  /\ Len(table) = 1
  /\ table[1].heart_rate = 220
  /\ log[1].msg.fields["heart_rate"] = Num(2205)

\* C2: a JSON object with the seven required keys and six numbers within
\* their intervals yields exactly one record: event_ts unchanged, the five
\* integer fields truncated to integers, temperature as given, ingest_ts not
\* before the beginning of the call, and no key besides the eight columns.
C2_ValidInputAccepted ==
  \A i \in DOMAIN log :
    ValidInput(log[i].msg) =>
      /\ log[i].status = "yield"
      /\ Len(log[i].out) = 1
      /\ LET r == log[i].out[1]
             f == log[i].msg.fields
         IN /\ DOMAIN r = Columns
            /\ r.event_ts = f["event_ts"]
            /\ \A k \in IntFields : r[k] = f[k].v \div 10
            /\ r.temperature = f["temperature"].v
            /\ r.ingest_ts >= log[i].began

C2_Witness ==
  /\ Len(log) = 1
  /\ ValidInput(log[1].msg)
  /\ "_is_error" \in DOMAIN log[1].msg.fields
  /\ log[1].msg.fields["heart_rate"] = Num(305)
  /\ log[1].status = "yield"
  /\ log[1].out[1].ingest_ts > log[1].began

\* C3: with the other five bounded fields valid, a number exactly at the
\* lower or upper end of a field's interval is accepted, and a number one
\* unit below the lower end or one unit above the upper end is dropped.
C3_BoundaryExact ==
  \A i \in DOMAIN log : \A k \in Bounded :
    LET m == log[i].msg IN
    ( /\ m.top = "object"
      /\ required \subseteq DOMAIN m.fields
      /\ \A j \in Bounded \ {k} : NumberInRange(m.fields, j)
      /\ m.fields[k].t = "num" ) =>
        /\ m.fields[k].v \in {Lo(k), Hi(k)} => log[i].status = "yield"
        /\ m.fields[k].v \in {Lo(k) - 10, Hi(k) + 10} =>
             log[i].status = "return" /\ log[i].out = <<>>

C3_Witness ==
  /\ Len(log) = 1
  /\ log[1].msg.top = "object"
  /\ required \subseteq DOMAIN log[1].msg.fields
  /\ log[1].msg.fields["temperature"] = Num(1110)
  /\ log[1].msg.fields["spo2"] = Num(1000)
  /\ \A j \in Bounded \ {"temperature"} : NumberInRange(log[1].msg.fields, j)
  /\ log[1].status = "return"

\* C4: a payload the simulator built by applying one of the five injection
\* strategies to a gen_vitals record is never accepted by process.
C4_InjectedPayloadDropped ==
  ( /\ gen.published >= 1
    /\ Len(log) = gen.published
    /\ gen.mode \in modes ) => log[Len(log)].status # "yield"

\* C5: with all required keys present, a non-numeric string, a null or a
\* boolean as the value of any numeric field makes process drop the record.
C5_UncoercibleDropped ==
  \A i \in DOMAIN log :
    LET m == log[i].msg IN
    ( /\ m.top = "object"
      /\ required \subseteq DOMAIN m.fields
      /\ \E k \in Bounded : m.fields[k].t \in {"str_text", "null", "bool"} ) =>
        log[i].status # "yield"

\* C6: input that is not valid UTF-8, not well-formed JSON, or JSON whose top
\* level is not an object yields no record and no exception: the call returns
\* normally with nothing emitted, and no call ever ends by raising.
C6_MalformedSilentlyDropped ==
  \A i \in DOMAIN log :
    /\ log[i].status # "raise"
    /\ log[i].msg.top # "object" =>
         log[i].status = "return" /\ log[i].out = <<>>

C6_Witness ==
  /\ Len(log) = 1
  /\ log[1].msg = NonObj("array", required)
  /\ log[1].status = "return"
  /\ \A w \in Workers : wk[w].pc = "idle"

\* C7: two completed calls on the same bytes take the same accept/drop
\* decision, and when both accept their records agree on every column but
\* ingest_ts.
C7_Idempotent ==
  \A i \in DOMAIN log : \A j \in DOMAIN log :
    log[i].msg = log[j].msg =>
      /\ log[i].status = log[j].status
      /\ Len(log[i].out) = Len(log[j].out)
      /\ log[i].status = "yield" =>
           \A c \in Columns \ {"ingest_ts"} : log[i].out[1][c] = log[j].out[1][c]

C7_Witness ==
  /\ Len(log) = 2
  /\ log[1].msg = log[2].msg
  /\ log[1].status = "yield"
  /\ log[2].status = "yield"
  /\ log[1].out[1].ingest_ts # log[2].out[1].ingest_ts

Count(seq, r) == Cardinality({i \in DOMAIN seq : seq[i] = r})
Yielded == SelectSeq(log, LAMBDA e : e.status = "yield")

\* C8: the rows in the table and on their way to it are exactly the records
\* of the accepting calls, one per call with duplicates kept, a dropping call
\* adds none, and a step changes the table only by appending one row.
C8_AppendOnlyNoDedup ==
  /\ [](/\ Len(table) + Len(pending) = Len(Yielded)
        /\ \A i \in DOMAIN Yielded :
             Count(table \o pending, Yielded[i].out[1])
               = Count([j \in DOMAIN Yielded |-> Yielded[j].out[1]], Yielded[i].out[1]))
  /\ [][\/ table' = table
        \/ \E i \in DOMAIN pending : table' = Append(table, pending[i])]_vars

C8_Witness ==
  /\ Len(log) = 2
  /\ log[1].msg = log[2].msg
  /\ Len(table) = 2
  /\ table[1] = table[2]

IsPrefix(s, t) == Len(s) <= Len(t) /\ \A i \in DOMAIN s : s[i] = t[i]

\* the step at which a message that is not accepted leaves process
StopsAt(m) ==
  CASE m.top = "badutf8" -> "decode"
    [] m.top = "badjson" -> "parse"
    [] m.top \in {"number", "bool", "null"} -> "presence"
    [] m.top \in {"array", "string"} ->
         IF required \subseteq m.has THEN "coerce" ELSE "presence"
    [] m.top = "object" ->
         IF ~(required \subseteq DOMAIN m.fields) THEN "presence"
         ELSE IF \E k \in Bounded :
                   m.fields[k].t \in {"str_text", "null", "array"} THEN "coerce"
         ELSE "range"

\* C9 as stated: the steps run in the order decode, parse, presence,
\* coercion, range checks, clock read, yield; a call that drops its message
\* has read no clock; the ingest_ts of an accepted record is not before the
\* completion of its range checks.
C9_ClockReadAfterChecks ==
  /\ \A w \in Workers :
       IsPrefix(wk[w].steps,
                <<"decode", "parse", "presence", "coerce", "range", "clock", "yield">>)
  /\ \A i \in DOMAIN log :
       /\ IsPrefix(log[i].steps,
                   <<"decode", "parse", "presence", "coerce", "range", "clock", "yield">>)
       /\ log[i].status = "return" => log[i].ingest = NoTs
       /\ log[i].status = "yield" => log[i].ingest >= log[i].rangeAt

\* C9 amended: the clock is read once, first, in every call; then decode,
\* parse, presence, coercion, range checks and yield follow in that order,
\* a call that drops stopping at the first failing step; the ingest_ts of an
\* accepted record is that first reading, between the beginning of the call
\* and the completion of the range checks.
C9_ClockReadFirst ==
  /\ \A w \in Workers :
       /\ IsPrefix(wk[w].steps,
                   <<"clock", "decode", "parse", "presence", "coerce", "range", "yield">>)
       /\ wk[w].steps # <<>> =>
            wk[w].ingest # NoTs /\ wk[w].began <= wk[w].ingest
  /\ \A i \in DOMAIN log :
       /\ IsPrefix(log[i].steps,
                   <<"clock", "decode", "parse", "presence", "coerce", "range", "yield">>)
       /\ log[i].steps[1] = "clock"
       /\ log[i].began <= log[i].ingest
       /\ log[i].status = "return" =>
            log[i].steps[Len(log[i].steps)] = StopsAt(log[i].msg)
       /\ log[i].status = "yield" =>
            /\ Len(log[i].steps) = 7
            /\ log[i].ingest <= log[i].rangeAt
            /\ log[i].out[1].ingest_ts = log[i].ingest

C9_Witness ==
  \E i \in DOMAIN log :
    /\ log[i].status = "yield"
    /\ log[i].steps[1] = "clock"
    /\ log[i].ingest < log[i].rangeAt
    /\ Len(table) = 1

\* C10: once main has passed its startup checks, a payload published with
\* _is_error false is accepted by process.
C10_CleanPayloadAccepted ==
  ( /\ gen.pc = "loop"
    /\ gen.published >= 1
    /\ Len(log) = gen.published
    /\ log[Len(log)].msg.fields["_is_error"] = Bool(0) ) =>
      log[Len(log)].status = "yield"

====
